---------------------------- MODULE Spec2Model ----------------------------
(***************************************************************************)
(* Capacitor behaviour simulator: backend resolution (the process-wide     *)
(* CapacitorSimulator of capacitor_simulator.py) and the simulations that  *)
(* main.py runs on the native branch or on the Python fallback.            *)
(*                                                                         *)
(* Numbers are exact rationals <<n, d>> with d > 0; d = 0 stands for the   *)
(* non-finite floats (<<1,0>> = inf, <<-1,0>> = -inf, <<0,0>> = nan).      *)
(* exp is kept uninterpreted: a voltage records the closed form used and   *)
(* the argument handed to exp.                                             *)
(***************************************************************************)
EXTENDS Integers, Sequences, FiniteSets, TLC

VARIABLES
    g_simulator,          \* capacitor_simulator._simulator: 0 is None, else an instance id
    libState,             \* the shared library file on disk
    cwd,                  \* process working directory
    constructed,          \* CapacitorSimulator instances constructed successfully so far
    failedOnce,           \* a resolution has raised in this process
    pc,                   \* per thread: position in main() / get_simulator()
    runsLeft,             \* per thread: script runs (reruns of main) still to come
    inst,                 \* per thread: instance built by CapacitorSimulator(), not yet assigned
    simulator,            \* per thread: main's local `simulator` (0 is None)
    c_library_available,  \* per thread: main's local flag
    warned,               \* per thread: st.warning shown by main's except clause
    exc,                  \* per thread: exception raised in this run ("none" if none)
    branches,             \* per thread: backend branch of each simulation of this run
    failedBefore,         \* per thread: a resolution had already failed when this run began
    call                  \* the latest call of a simulate_* function: arguments and outcome

vars == <<g_simulator, libState, cwd, constructed, failedOnce, pc, runsLeft, inst,
          simulator, c_library_available, warned, exc, branches, failedBefore, call>>

envVars == <<g_simulator, libState, cwd, constructed, failedOnce>>
localVars == <<pc, runsLeft, inst, simulator, c_library_available, warned, exc, branches,
               failedBefore>>

-----------------------------------------------------------------------------
(* Bounds of the model *)

NumThreads == 2       \* script threads of the host (one per session)
MaxRuns == 2          \* runs of main() per thread
MaxCap == 2           \* capacitance values 1..MaxCap
MaxESR == 1           \* ESR values 0..MaxESR
MaxLeak == 1          \* leakage values 0..MaxLeak
MaxRes == 2           \* resistance values 0..MaxRes
MaxVolt == 2          \* source voltage values 0..MaxVolt
MaxTime == 2          \* time-grid values 0..MaxTime
MaxGridLen == 2       \* time-grid lengths 0..MaxGridLen
SurfacePoints == 2    \* samples per linspace axis of the 3D plots
CurvePoints == 2      \* samples of temp_range

Threads == 1..NumThreads
None == 0

-----------------------------------------------------------------------------
(* Exact arithmetic standing for the float arithmetic of the code *)

Abs(x) == IF x < 0 THEN -x ELSE x
Sign(x) == IF x > 0 THEN 1 ELSE IF x < 0 THEN -1 ELSE 0

RECURSIVE GCD(_, _)
GCD(a, b) == IF b = 0 THEN a ELSE GCD(b, a % b)

Norm(n, d) ==
    IF d = 0 THEN <<Sign(n), 0>>
    ELSE LET g == GCD(Abs(n), Abs(d))
             s == IF d < 0 THEN -1 ELSE 1
         IN  <<s * (n \div g), s * (d \div g)>>

Num(n) == <<n, 1>>
Finite(a) == a[2] # 0
NaN == <<0, 0>>

RNeg(a) == <<-a[1], a[2]>>

RMul(a, b) ==
    IF Finite(a) /\ Finite(b) THEN Norm(a[1] * b[1], a[2] * b[2])
    ELSE <<Sign(a[1]) * Sign(b[1]), 0>>

RAdd(a, b) ==
    IF Finite(a) /\ Finite(b) THEN Norm(a[1] * b[2] + b[1] * a[2], a[2] * b[2])
    ELSE IF Finite(a) THEN b
    ELSE IF Finite(b) THEN a
    ELSE IF a = b THEN a ELSE NaN

RSub(a, b) == RAdd(a, RNeg(b))

\* numpy float division: x / 0 is inf, -inf or nan (with a RuntimeWarning), never an exception
RDiv(a, b) ==
    IF Finite(a) /\ Finite(b) THEN Norm(a[1] * b[2], a[2] * b[1])
    ELSE IF Finite(a) THEN (IF b[1] = 0 THEN NaN ELSE Num(0))
    ELSE IF Finite(b) THEN <<a[1] * (IF b[1] < 0 THEN -1 ELSE 1), 0>>
    ELSE NaN

\* comparisons of floats: any comparison with nan is False
RLeq(a, b) ==
    IF Finite(a) /\ Finite(b) THEN a[1] * b[2] <= b[1] * a[2]
    ELSE IF a = NaN \/ b = NaN THEN FALSE
    ELSE IF ~Finite(a) /\ ~Finite(b) THEN a[1] <= b[1]
    ELSE IF ~Finite(a) THEN a[1] < 0
    ELSE b[1] > 0

RLt(a, b) == RLeq(a, b) /\ a # b

RMin(a, b) == IF RLt(b, a) THEN b ELSE a

-----------------------------------------------------------------------------
(* Program constants *)

TempRef == 25         \* reference temperature of the temperature coefficient
TempLo == -40         \* temp_range
TempHi == 125
ResLo == 50           \* resistance_range of the 3D comparison and landscape
ResHi == 500
VoltLo == 5           \* voltage_range of the 3D comparison and landscape
VoltHi == 25

\* np.linspace(a, b, n)
Linspace(a, b, n) ==
    IF n = 1 THEN <<a>>
    ELSE [i \in 1..n |-> RAdd(a, RMul(Num(i - 1), RDiv(RSub(b, a), Num(n - 1))))]

Range(s) == {s[i] : i \in DOMAIN s}

-----------------------------------------------------------------------------
(* Voltage trajectory *)

\* V0 * (1 - np.exp(-t / (R * C)))
ChargingVoltage(V0, t, R, C) ==
    [form |-> "V0*(1-exp(arg))", V0 |-> V0, arg |-> RDiv(RNeg(t), RMul(R, C))]

\* the discharge clock started at t = 0 instead of at the midpoint
DischargingFromZero(V0, t, last, R, C) ==
    [form |-> "V0*exp(arg)", V0 |-> V0, arg |-> RDiv(RNeg(t), RMul(R, C))]

\* discharge_time = t - time_steps[-1] / 2;  V0 * np.exp(-discharge_time / (R * C))
DischargingVoltage(V0, t, last, R, C) ==
    LET discharge_time == RSub(t, RDiv(last, Num(2)))
    IN  [form |-> "V0*exp(arg)", V0 |-> V0, arg |-> RDiv(RNeg(discharge_time), RMul(R, C))]

\* the charging test `t <= time_steps[-1] / 2` with a strict comparison
IsChargingStrict(t, last) == RLt(t, RDiv(last, Num(2)))

\* t <= time_steps[-1] / 2
IsCharging(t, last) == RLeq(t, RDiv(last, Num(2)))

PointVoltage(V0, t, last, R, C) ==
    IF IsCharging(t, last) THEN ChargingVoltage(V0, t, R, C)
    ELSE DischargingVoltage(V0, t, last, R, C)

\* the fallback loop of simulate_charge_discharge
FallbackVoltages(time_steps, R, C, V0) ==
    [i \in 1..Len(time_steps) |->
        PointVoltage(V0, time_steps[i], time_steps[Len(time_steps)], R, C)]

\* the native simulate_capacitor_behavior: fills voltage_array[0..num_steps-1]
simulate_capacitor_behavior(capacitor, R, V0, temperature, time_array, num_steps) ==
    [i \in 1..num_steps |->
        PointVoltage(V0, time_array[i], time_array[num_steps], R, capacitor.capacitance)]

\* the native create_capacitor: returns the packed record
create_capacitor(cap_data) ==
    [capacitance |-> cap_data.C, ESR |-> cap_data.ESR,
     leakage |-> cap_data.leakage, temp_coeff |-> cap_data.temp_coeff]

\* the element count handed over one larger than the two buffers
BehaviorCallOverrun(capacitor, R, time_steps) ==
    [fn |-> "simulate_capacitor_behavior", capacitance |-> capacitor.capacitance,
     resistance |-> R, time_len |-> Len(time_steps), out_len |-> Len(time_steps),
     num_steps |-> Len(time_steps) + 1]

\* what CapacitorSimulator.simulate_behavior hands across the boundary
BehaviorCall(capacitor, R, time_steps) ==
    [fn |-> "simulate_capacitor_behavior", capacitance |-> capacitor.capacitance,
     resistance |-> R, time_len |-> Len(time_steps), out_len |-> Len(time_steps),
     num_steps |-> Len(time_steps)]

CreateCall(cap_data, R) ==
    [fn |-> "create_capacitor", capacitance |-> cap_data.C, resistance |-> R,
     time_len |-> 0, out_len |-> 0, num_steps |-> 0]

EfficiencyCall(capacitor, R) ==
    [fn |-> "calculate_energy_efficiency", capacitance |-> capacitor.capacitance,
     resistance |-> R, time_len |-> 0, out_len |-> 0, num_steps |-> 0]

-----------------------------------------------------------------------------
(* Energy analysis *)

Square(a) == RMul(a, a)

\* charging_time = min(5 * tau, tau * 3)
ChargingTime(tau) == RMin(RMul(Num(5), tau), RMul(tau, Num(3)))

EnergyStored(C, V0) == RMul(RMul(Norm(1, 2), C), Square(V0))

\* leakage * V0 * 0.5, then * V0 * charging_time
LeakageLoss(leakage, V0, charging_time) ==
    RMul(RMul(RMul(RMul(leakage, V0), Norm(1, 2)), V0), charging_time)

\* native branch: avg_ESR_loss_rate = (V0**2) / (4 * R), times charging_time
ESRLossNativeBranch(V0, R, charging_time) ==
    RMul(RDiv(Square(V0), RMul(Num(4), R)), charging_time)

\* fallback branch: avg_current = V0 / (2 * R);  ESR * avg_current**2 * charging_time
ESRLossFallbackBranch(ESR, V0, R, charging_time) ==
    RMul(RMul(ESR, Square(RDiv(V0, RMul(Num(2), R)))), charging_time)

\* the stored energy left out of the denominator
FallbackEfficiencyLossOnly(energy_stored, total_energy_lost) ==
    IF RLt(Num(0), total_energy_lost)
    THEN RMul(RDiv(energy_stored, total_energy_lost), Num(100))
    ELSE Num(0)

\* the guard of the fallback efficiency dropped: the quotient is always taken
FallbackEfficiencyUnguarded(energy_stored, total_energy_lost) ==
    RMul(RDiv(energy_stored, RAdd(energy_stored, total_energy_lost)), Num(100))

\* (energy_stored / (energy_stored + total_energy_lost)) * 100 if total_energy_lost > 0 else 0
FallbackEfficiency(energy_stored, total_energy_lost) ==
    IF RLt(Num(0), total_energy_lost)
    THEN RMul(RDiv(energy_stored, RAdd(energy_stored, total_energy_lost)), Num(100))
    ELSE Num(0)

\* the native calculate_energy_efficiency
calculate_energy_efficiency(capacitor, R, V0, temperature) ==
    LET stored == EnergyStored(capacitor.capacitance, V0)
        t_eff == ChargingTime(RMul(R, capacitor.capacitance))
        losses == RAdd(RAdd(ESRLossNativeBranch(V0, R, t_eff),
                            LeakageLoss(capacitor.leakage, V0, t_eff)),
                       RMul(stored, Norm(10, 100)))
    IN  IF stored = Num(0) /\ losses = Num(0) THEN Num(0)
        ELSE RMul(Num(100), RDiv(stored, RAdd(stored, losses)))

\* the part both branches of simulate_energy_analysis share
Breakdown(C, V0, esr_loss, leak_loss, eff) ==
    LET energy_stored == EnergyStored(C, V0)
    IN  [energy_stored |-> energy_stored,
         energy_lost_ESR |-> esr_loss,
         energy_lost_leakage |-> leak_loss,
         dielectric_losses |-> RMul(energy_stored, Norm(3, 100)),
         plate_losses |-> RMul(energy_stored, Norm(5, 100)),
         self_discharge_losses |-> RMul(energy_stored, Norm(2, 100)),
         efficiency |-> eff]

\* simulate_energy_analysis, `if c_library_available and simulator` branch
EnergyNativeBranch(cap_data, R, V0, temperature) ==
    LET charging_time == ChargingTime(RMul(R, cap_data.C))
    IN  Breakdown(cap_data.C, V0,
                  ESRLossNativeBranch(V0, R, charging_time),
                  LeakageLoss(cap_data.leakage, V0, charging_time),
                  calculate_energy_efficiency(create_capacitor(cap_data), R, V0, temperature))

\* simulate_energy_analysis, else branch
EnergyFallbackBranch(cap_data, R, V0) ==
    LET charging_time == ChargingTime(RMul(R, cap_data.C))
        energy_stored == EnergyStored(cap_data.C, V0)
        esr_loss == ESRLossFallbackBranch(cap_data.ESR, V0, R, charging_time)
        leak_loss == LeakageLoss(cap_data.leakage, V0, charging_time)
        total_energy_lost ==
            RAdd(RAdd(RAdd(RAdd(esr_loss, leak_loss), RMul(energy_stored, Norm(3, 100))),
                      RMul(energy_stored, Norm(5, 100))),
                 RMul(energy_stored, Norm(2, 100)))
    IN  Breakdown(cap_data.C, V0, esr_loss, leak_loss,
                  FallbackEfficiency(energy_stored, total_energy_lost))

\* the "Simplified calculation" of the 3D comparison and of the 3D energy landscape
Simplified3D(C, ESR, r, v) ==
    LET tau == RMul(r, C)
        avg_current == RDiv(v, RMul(Num(2), r))
        energy_lost_ESR == RMul(RMul(ESR, Square(avg_current)), tau)
        energy_stored == EnergyStored(C, v)
    IN  [r |-> r, v |-> v, C |-> C, ESR |-> ESR,
         energy_lost_ESR |-> energy_lost_ESR, energy_stored |-> energy_stored,
         eff |-> RMul(RDiv(energy_stored, RAdd(energy_stored, energy_lost_ESR)), Num(100))]

\* the native branch of the same two loops
Native3D(cap_data, r, v, temperature) ==
    [r |-> r, v |-> v, C |-> cap_data.C, ESR |-> cap_data.ESR,
     energy_lost_ESR |-> NaN, energy_stored |-> NaN,
     eff |-> calculate_energy_efficiency(create_capacitor(cap_data), r, v, temperature)]

\* the offset taken from 0 degrees instead of from the reference temperature
CapacitanceAtFromZero(C_base, temp_coeff, T) ==
    RMul(C_base, RAdd(Num(1), RMul(temp_coeff, T)))

\* C_base * (1 + temp_coeff * (T - 25))
CapacitanceAt(C_base, temp_coeff, T) ==
    RMul(C_base, RAdd(Num(1), RMul(temp_coeff, RSub(T, Num(TempRef)))))

-----------------------------------------------------------------------------
(* The simulate_* functions of main.py: outcome of one call.  `native` is the *)
(* value of `c_library_available and simulator`.                              *)

BranchOf(native) == IF native THEN "native" ELSE "fallback"

Outcome(native, calls, raised, result) ==
    [branch |-> BranchOf(native), nativeCalls |-> IF native THEN calls ELSE {},
     raised |-> raised, result |-> result]

\* ax.axvline(x=time_steps[len(time_steps)//2]) indexes the grid
ChargeDischargeRaises(time_steps) == IF Len(time_steps) = 0 THEN "IndexError" ELSE "none"

\* R and V0 are Python floats: (V0**2) / (4 * R) and V0 / (2 * R) raise on R = 0
EnergyAnalysisRaises(R) == IF R = Num(0) THEN "ZeroDivisionError" ELSE "none"

\* time_steps[-1]
Surface3DRaises(time_steps) == IF Len(time_steps) = 0 THEN "IndexError" ELSE "none"

ChargeDischarge(native, cap_data, R, V0, temperature, time_steps) ==
    LET capacitor == create_capacitor(cap_data)
    IN  Outcome(native,
                {CreateCall(cap_data, R), BehaviorCall(capacitor, R, time_steps)},
                ChargeDischargeRaises(time_steps),
                IF native
                THEN simulate_capacitor_behavior(capacitor, R, V0, temperature,
                                                 time_steps, Len(time_steps))
                ELSE FallbackVoltages(time_steps, R, cap_data.C, V0))

\* the fallback branch fed with the capacitance at the selected temperature
EnergyAnalysisTemperatureScaled(native, cap_data, R, V0, temperature) ==
    LET capacitor == create_capacitor(cap_data)
        scaled == [cap_data EXCEPT !.C = CapacitanceAt(@, cap_data.temp_coeff, temperature)]
    IN  Outcome(native,
                {CreateCall(cap_data, R), EfficiencyCall(capacitor, R)},
                EnergyAnalysisRaises(R),
                IF R = Num(0) THEN <<>>
                ELSE IF native THEN EnergyNativeBranch(cap_data, R, V0, temperature)
                ELSE EnergyFallbackBranch(scaled, R, V0))

EnergyAnalysis(native, cap_data, R, V0, temperature) ==
    LET capacitor == create_capacitor(cap_data)
    IN  Outcome(native,
                {CreateCall(cap_data, R), EfficiencyCall(capacitor, R)},
                EnergyAnalysisRaises(R),
                IF R = Num(0) THEN <<>>
                ELSE IF native THEN EnergyNativeBranch(cap_data, R, V0, temperature)
                ELSE EnergyFallbackBranch(cap_data, R, V0))

TemperatureEffects(native, cap_data, R, temperature) ==
    LET C_base == cap_data.C
        temp_range == Linspace(Num(TempLo), Num(TempHi), CurvePoints)
        C_selected == CapacitanceAt(C_base, cap_data.temp_coeff, temperature)
    IN  Outcome(native,
                {CreateCall(cap_data, R)},
                "none",
                [capacitance_values |->
                     [i \in DOMAIN temp_range |->
                         CapacitanceAt(C_base, cap_data.temp_coeff, temp_range[i])],
                 C_selected |-> C_selected,
                 capacitance_change |-> RMul(RSub(RDiv(C_selected, C_base), Num(1)), Num(100))])

\* simulate_3d_surface_plot has no native branch
Surface3D(cap_data, R, V0, time_steps) ==
    LET last == time_steps[Len(time_steps)]
        resistance_range == Linspace(RMul(R, Norm(1, 2)), RMul(R, Num(2)), SurfacePoints)
        time_range == Linspace(Num(0), last, SurfacePoints)
    IN  [branch |-> "fallback", nativeCalls |-> {},
         raised |-> Surface3DRaises(time_steps),
         result |-> IF Len(time_steps) = 0 THEN {}
                    ELSE {[t |-> tt, last |-> last, r |-> r,
                           V |-> PointVoltage(V0, tt, last, r, cap_data.C)]
                          : tt \in Range(time_range), r \in Range(resistance_range)}]

Grid3D ==
    Range(Linspace(Num(ResLo), Num(ResHi), SurfacePoints))
        \X Range(Linspace(Num(VoltLo), Num(VoltHi), SurfacePoints))

Efficiency3D(native, cap_data, r, v, temperature) ==
    IF native THEN Native3D(cap_data, r, v, temperature)
    ELSE Simplified3D(cap_data.C, cap_data.ESR, r, v)

Comparison3D(native, table, temperature) ==
    Outcome(native,
            UNION {{CreateCall(row, rv[1]), EfficiencyCall(create_capacitor(row), rv[1])}
                   : row \in table, rv \in Grid3D},
            "none",
            {Efficiency3D(native, row, rv[1], rv[2], temperature) : row \in table, rv \in Grid3D})

Landscape3D(native, cap_data, temperature) ==
    Outcome(native,
            UNION {{CreateCall(cap_data, rv[1]), EfficiencyCall(create_capacitor(cap_data), rv[1])}
                   : rv \in Grid3D},
            "none",
            {Efficiency3D(native, cap_data, rv[1], rv[2], temperature) : rv \in Grid3D})

-----------------------------------------------------------------------------
(* Inputs *)

Rows ==
    [C : {Num(c) : c \in 1..MaxCap},
     ESR : {Num(e) : e \in 0..MaxESR},
     leakage : {Num(l) : l \in 0..MaxLeak},
     temp_coeff : {Norm(-1, 100), Norm(1, 100)}]

\* time grids: non-decreasing sequences of non-negative times, the empty one included
Grids ==
    UNION {{g \in [1..n -> {Num(k) : k \in 0..MaxTime}] :
                \A i \in 1..n : \A j \in 1..n : i <= j => RLeq(g[i], g[j])}
           : n \in 0..MaxGridLen}

Resistances == {Num(r) : r \in 0..MaxRes}
Voltages == {Num(v) : v \in 0..MaxVolt}
Temperatures == {Num(TempRef), Num(TempHi)}

\* df = load_capacitor_data(): the rows of the specification table
df == Rows

\* the sidebar's values of a run of main()
DefaultArgs ==
    [cap_data |-> [C |-> Num(1), ESR |-> Num(1), leakage |-> Num(1),
                   temp_coeff |-> Norm(-1, 100)],
     resistance |-> Num(1), voltage |-> Num(1), temperature |-> Num(TempRef),
     time_steps |-> <<Num(0), Num(1), Num(2)>>]

NoCall == [fn |-> "none"]

InitEnv ==
    /\ g_simulator = None
    /\ libState \in {"absent", "good", "corrupt", "nosymbol"}
    /\ cwd = "start_dir"
    /\ constructed = 0
    /\ failedOnce = FALSE

\* the host runs main() on every script thread
Init ==
    /\ InitEnv
    /\ pc = [t \in Threads |-> "idle"]
    /\ runsLeft = [t \in Threads |-> MaxRuns]
    /\ inst = [t \in Threads |-> None]
    /\ simulator = [t \in Threads |-> None]
    /\ c_library_available = [t \in Threads |-> FALSE]
    /\ warned = [t \in Threads |-> FALSE]
    /\ exc = [t \in Threads |-> "none"]
    /\ branches = [t \in Threads |-> <<>>]
    /\ failedBefore = [t \in Threads |-> FALSE]
    /\ call = NoCall

\* thread 1 has resolved its backend (to the instance, or to None after a caught
\* RuntimeError) and the simulate_* functions are called with that pair
InitSim ==
    /\ \E native \in BOOLEAN :
         /\ g_simulator = IF native THEN 1 ELSE None
         /\ libState = IF native THEN "good" ELSE "corrupt"
         /\ constructed = IF native THEN 1 ELSE 0
         /\ failedOnce = ~native
         /\ inst = [t \in Threads |-> IF native /\ t = 1 THEN 1 ELSE None]
         /\ simulator = [t \in Threads |-> IF native /\ t = 1 THEN 1 ELSE None]
         /\ c_library_available = [t \in Threads |-> native /\ t = 1]
         /\ warned = [t \in Threads |-> ~native /\ t = 1]
         /\ exc = [t \in Threads |-> IF ~native /\ t = 1 THEN "RuntimeError" ELSE "none"]
    /\ cwd = "start_dir"
    /\ pc = [t \in Threads |-> IF t = 1 THEN "tabs" ELSE "idle"]
    /\ runsLeft = [t \in Threads |-> 0]
    /\ branches = [t \in Threads |-> <<>>]
    /\ failedBefore = [t \in Threads |-> FALSE]
    /\ call = NoCall

-----------------------------------------------------------------------------
(* main(): backend resolution *)

StartMain(t) ==
    /\ pc[t] \in {"idle", "done", "aborted"}
    /\ runsLeft[t] > 0
    /\ runsLeft' = [runsLeft EXCEPT ![t] = @ - 1]
    /\ pc' = [pc EXCEPT ![t] = "get_simulator"]
    /\ inst' = [inst EXCEPT ![t] = None]
    /\ simulator' = [simulator EXCEPT ![t] = None]
    /\ c_library_available' = [c_library_available EXCEPT ![t] = FALSE]
    /\ warned' = [warned EXCEPT ![t] = FALSE]
    /\ exc' = [exc EXCEPT ![t] = "none"]
    /\ branches' = [branches EXCEPT ![t] = <<>>]
    /\ failedBefore' = [failedBefore EXCEPT ![t] = failedOnce]
    /\ UNCHANGED <<envVars, call>>

\* an exception leaves CapacitorSimulator() and get_simulator() and reaches main's
\* try: `except RuntimeError` catches it, anything else leaves main
RaiseInResolution(t, e) ==
    /\ exc' = [exc EXCEPT ![t] = e]
    /\ failedOnce' = TRUE
    /\ IF e = "RuntimeError"
       THEN /\ pc' = [pc EXCEPT ![t] = "tabs"]
            /\ warned' = [warned EXCEPT ![t] = TRUE]
            /\ c_library_available' = [c_library_available EXCEPT ![t] = FALSE]
            /\ simulator' = [simulator EXCEPT ![t] = None]
       ELSE /\ pc' = [pc EXCEPT ![t] = "aborted"]
            /\ UNCHANGED <<warned, c_library_available, simulator>>

\* get_simulator: `if _simulator is None`
GetSimulatorCheck(t) ==
    /\ pc[t] = "get_simulator"
    /\ pc' = [pc EXCEPT ![t] = IF g_simulator = None THEN "ctor" ELSE "gs_return"]
    /\ UNCHANGED <<envVars, runsLeft, inst, simulator, c_library_available, warned, exc,
                   branches, failedBefore, call>>

\* CapacitorSimulator.__init__: `if not os.path.exists(lib_path)`
CtorExists(t) ==
    /\ pc[t] = "ctor"
    /\ pc' = [pc EXCEPT ![t] = IF libState = "absent" THEN "build" ELSE "load"]
    /\ UNCHANGED <<envVars, runsLeft, inst, simulator, c_library_available, warned, exc,
                   branches, failedBefore, call>>

\* what a build command that exits with 0 can leave at lib_path
BuildResults == {"absent", "good", "corrupt", "nosymbol"}

\* CapacitorSimulator._build_library: os.chdir, then the build command
BuildLibrary(t) ==
    /\ pc[t] = "build"
    /\ \E outcome \in {"chdir_raises", "nonzero"} \cup BuildResults :
           IF outcome = "chdir_raises"
           THEN /\ RaiseInResolution(t, "OSError")
                /\ UNCHANGED <<cwd, libState>>
           ELSE IF outcome = "nonzero"
           THEN /\ cwd' = "build_dir"
                /\ RaiseInResolution(t, "RuntimeError")
                /\ UNCHANGED libState
           ELSE /\ cwd' = "build_dir"
                /\ libState' = IF libState = "absent" THEN outcome ELSE libState
                /\ pc' = [pc EXCEPT ![t] = "load"]
                /\ UNCHANGED <<failedOnce, exc, warned, c_library_available, simulator>>
    /\ UNCHANGED <<g_simulator, constructed, runsLeft, inst, branches, failedBefore, call>>

\* CapacitorSimulator.__init__: CDLL(lib_path) and _setup_function_signatures()
LoadLibrary(t) ==
    /\ pc[t] = "load"
    /\ IF libState \in {"absent", "corrupt"}
       THEN /\ RaiseInResolution(t, "RuntimeError")
            /\ UNCHANGED <<constructed, inst>>
       ELSE IF libState = "nosymbol"
       THEN /\ RaiseInResolution(t, "AttributeError")
            /\ UNCHANGED <<constructed, inst>>
       ELSE /\ constructed' = constructed + 1
            /\ inst' = [inst EXCEPT ![t] = constructed + 1]
            /\ pc' = [pc EXCEPT ![t] = "assign"]
            /\ UNCHANGED <<failedOnce, exc, warned, c_library_available, simulator>>
    /\ UNCHANGED <<g_simulator, libState, cwd, runsLeft, branches, failedBefore, call>>

\* get_simulator: `_simulator = CapacitorSimulator()`
AssignSimulator(t) ==
    /\ pc[t] = "assign"
    /\ g_simulator' = inst[t]
    /\ pc' = [pc EXCEPT ![t] = "gs_return"]
    /\ UNCHANGED <<libState, cwd, constructed, failedOnce, runsLeft, inst, simulator,
                   c_library_available, warned, exc, branches, failedBefore, call>>

\* get_simulator: `return _simulator`, and main's `c_library_available = True`
ReturnSimulator(t) ==
    /\ pc[t] = "gs_return"
    /\ simulator' = [simulator EXCEPT ![t] = g_simulator]
    /\ c_library_available' = [c_library_available EXCEPT ![t] = TRUE]
    /\ pc' = [pc EXCEPT ![t] = "tabs"]
    /\ UNCHANGED <<envVars, runsLeft, inst, warned, exc, branches, failedBefore, call>>

-----------------------------------------------------------------------------
(* main(): the tabs *)

\* `if c_library_available and simulator`
UseNative(t) == c_library_available[t] /\ simulator[t] # None

\* what the calls of tab1 .. tab4 raise, in order, with the sidebar's values
TabRaises ==
    <<ChargeDischargeRaises(DefaultArgs.time_steps),
      EnergyAnalysisRaises(DefaultArgs.resistance),
      "none",
      Surface3DRaises(DefaultArgs.time_steps),
      "none",
      "none">>

\* main, from `with tab1:` to its end: every simulation tests the same pair, and an
\* exception raised by a simulation leaves main
RunSimulations(t) ==
    LET raising == {i \in DOMAIN TabRaises : TabRaises[i] # "none"}
        stop == IF raising = {} THEN Len(TabRaises)
                ELSE CHOOSE i \in raising : \A j \in raising : i <= j
    IN  /\ pc[t] = "tabs"
        /\ branches' = [branches EXCEPT ![t] =
                [i \in 1..stop |-> IF i = 4 THEN "fallback" ELSE BranchOf(UseNative(t))]]
        /\ IF raising = {}
           THEN /\ pc' = [pc EXCEPT ![t] = "done"]
                /\ UNCHANGED exc
           ELSE /\ pc' = [pc EXCEPT ![t] = "aborted"]
                /\ exc' = [exc EXCEPT ![t] = TabRaises[stop]]
        /\ UNCHANGED <<envVars, runsLeft, inst, simulator, c_library_available, warned,
                   failedBefore, call>>

Next ==
    \E t \in Threads :
        \/ StartMain(t)
        \/ GetSimulatorCheck(t)
        \/ CtorExists(t)
        \/ BuildLibrary(t)
        \/ LoadLibrary(t)
        \/ AssignSimulator(t)
        \/ ReturnSimulator(t)
        \/ RunSimulations(t)

Spec == Init /\ [][Next]_vars

-----------------------------------------------------------------------------
(* The simulate_* functions called with a resolved backend pair *)

\* the functions keep nothing between calls: one call from each resolved state
CanCall(t) == pc[t] = "tabs" /\ call = NoCall

Called(t, fn, a, out) ==
    /\ call' = [fn |-> fn, thread |-> t, args |-> a, out |-> out]
    /\ UNCHANGED <<envVars, localVars>>

simulate_charge_discharge(t) ==
    /\ CanCall(t)
    /\ \E cap_data \in Rows, R \in Resistances, V0 \in Voltages, T \in Temperatures,
          time_steps \in Grids :
        Called(t, "simulate_charge_discharge",
               [cap_data |-> cap_data, resistance |-> R, voltage |-> V0, temperature |-> T,
                time_steps |-> time_steps],
               ChargeDischarge(UseNative(t), cap_data, R, V0, T, time_steps))

simulate_energy_analysis(t) ==
    /\ CanCall(t)
    /\ \E cap_data \in Rows, R \in Resistances, V0 \in Voltages, T \in Temperatures :
        Called(t, "simulate_energy_analysis",
               [cap_data |-> cap_data, resistance |-> R, voltage |-> V0, temperature |-> T],
               EnergyAnalysis(UseNative(t), cap_data, R, V0, T))

simulate_temperature_effects(t) ==
    /\ CanCall(t)
    /\ \E cap_data \in Rows, R \in Resistances, T \in Temperatures :
        Called(t, "simulate_temperature_effects",
               [cap_data |-> cap_data, resistance |-> R, temperature |-> T],
               TemperatureEffects(UseNative(t), cap_data, R, T))

simulate_3d_surface_plot(t) ==
    /\ CanCall(t)
    /\ \E cap_data \in Rows, R \in Resistances, V0 \in Voltages, time_steps \in Grids :
        Called(t, "simulate_3d_surface_plot",
               [cap_data |-> cap_data, resistance |-> R, voltage |-> V0,
                time_steps |-> time_steps],
               Surface3D(cap_data, R, V0, time_steps))

simulate_3d_capacitor_comparison(t) ==
    /\ CanCall(t)
    /\ \E R \in Resistances, V0 \in Voltages, T \in Temperatures :
        Called(t, "simulate_3d_capacitor_comparison",
               [resistance |-> R, voltage |-> V0, temperature |-> T],
               Comparison3D(UseNative(t), df, T))

simulate_3d_energy_landscape(t) ==
    /\ CanCall(t)
    /\ \E cap_data \in Rows, R \in Resistances, T \in Temperatures :
        Called(t, "simulate_3d_energy_landscape",
               [cap_data |-> cap_data, resistance |-> R, temperature |-> T],
               Landscape3D(UseNative(t), cap_data, T))

NextSim ==
    \E t \in Threads :
        \/ simulate_charge_discharge(t)
        \/ simulate_energy_analysis(t)
        \/ simulate_temperature_effects(t)
        \/ simulate_3d_surface_plot(t)
        \/ simulate_3d_capacitor_comparison(t)
        \/ simulate_3d_energy_landscape(t)

SpecSim == InitSim /\ [][NextSim]_vars

-----------------------------------------------------------------------------
(* Backend resolution: properties *)

ResolutionErrors == {"RuntimeError", "OSError", "AttributeError"}

\* C1: whenever the resolution of a run has failed (build command failed, build step
\* raised, library not loadable, symbol missing), main has not aborted: it has shown
\* the warning, c_library_available is False and every simulation of the run took
\* the Python fallback.
C1_FailureEndsInPure ==
    \A t \in Threads :
        exc[t] \in ResolutionErrors =>
            /\ pc[t] # "aborted"
            /\ warned[t]
            /\ ~c_library_available[t]
            /\ \A i \in DOMAIN branches[t] : branches[t][i] = "fallback"

\* C2: a run of main() that began after a resolution had failed in the process does
\* not enter the CapacitorSimulator constructor: no build and no load is attempted.
C2_NoRetryAfterFailure ==
    \A t \in Threads :
        failedBefore[t] => pc[t] \notin {"ctor", "build", "load", "assign"}

\* C3: at most one CapacitorSimulator is ever constructed successfully, and all
\* callers that hold an instance hold the same one.
C3_LoadedAtMostOnce ==
    /\ constructed <= 1
    /\ \A t1, t2 \in Threads :
          (simulator[t1] # None /\ simulator[t2] # None) => simulator[t1] = simulator[t2]

\* the constructor decides on the build by the presence of the library file, and a
\* load is attempted only after that decision
BuildIffAbsentBeforeLoad(t) ==
    /\ (pc[t] = "ctor" /\ pc'[t] # "ctor") =>
          /\ pc'[t] \in {"build", "load"}
          /\ pc'[t] = "build" <=> libState = "absent"
    /\ (pc[t] # "load" /\ pc'[t] = "load") =>
          \/ pc[t] = "build"
          \/ pc[t] = "ctor" /\ libState # "absent"

\* a build step that does not hand over to the load raises RuntimeError, attempts no
\* load and leaves the global _simulator as it was
FailedBuildRaisesRuntimeError(t) ==
    (pc[t] = "build" /\ pc'[t] \notin {"build", "load"}) =>
        /\ exc'[t] = "RuntimeError"
        /\ constructed' = constructed
        /\ g_simulator' = g_simulator

\* C14: constructing a CapacitorSimulator attempts the build step if and only if the
\* library file is absent, always before any load attempt; if the build fails, no load
\* is attempted, RuntimeError is raised and the global _simulator stays as it was.
C14_BuildIffAbsentThenLoad ==
    [][\A t \in Threads : BuildIffAbsentBeforeLoad(t) /\ FailedBuildRaisesRuntimeError(t)]_vars

InResolution(t) == pc[t] \in {"get_simulator", "ctor", "build", "load", "assign", "gs_return"}

\* C15: whenever no call of get_simulator() is in progress the process working
\* directory is the one the process started in, whether the resolutions so far
\* succeeded, failed at the build step or failed at the load step.
C15_WorkingDirectoryUnchanged ==
    (\A t \in Threads : ~InResolution(t)) => cwd = "start_dir"

\* C16: in a run of main() that reached the tabs, c_library_available is True if and
\* only if simulator is not None, and every simulation of the run (charge/discharge,
\* energy analysis, temperature effects, the three 3D plots) took the branch that
\* pair selects: none took the native branch while another took the fallback.
C16_OneBranchPerRun ==
    \A t \in Threads :
        pc[t] \in {"tabs", "done"} =>
            /\ c_library_available[t] <=> simulator[t] # None
            /\ \A i \in DOMAIN branches[t] :
                  branches[t][i] = BranchOf(c_library_available[t])
            /\ \A i, j \in DOMAIN branches[t] : branches[t][i] = branches[t][j]

-----------------------------------------------------------------------------
(* The simulations: properties of the latest call *)

IsCall(fn) == call.fn = fn
OnFallback == call.out.branch = "fallback"
Returned == call.out.raised = "none"

\* the trajectory rule in cross-multiplied form: t <= last/2 charges with exp(-t/(R C)),
\* any later t discharges from V0 with exp(-(t - last/2)/(R C))
ExpectedVoltage(V0, t, last, R, C) ==
    LET tauN == R[1] * C[1]
        tauD == R[2] * C[2]
        past == 2 * t[1] * last[2] - last[1] * t[2]
    IN  IF past <= 0
        THEN [form |-> "V0*(1-exp(arg))", V0 |-> V0, arg |-> Norm(-t[1] * tauD, t[2] * tauN)]
        ELSE [form |-> "V0*exp(arg)", V0 |-> V0,
              arg |-> Norm(-past * tauD, 2 * t[2] * last[2] * tauN)]

\* C4: in the pure trajectory computation every grid point t <= timeGrid[last]/2 uses
\* the charging formula and every later point the discharging formula, restarted from
\* sourceVoltage with the time elapsed since the midpoint (fallback loop and 3D surface).
C4_ChargeThenDischargeFromMidpoint ==
    /\ (IsCall("simulate_charge_discharge") /\ OnFallback) =>
          LET a == call.args
              n == Len(a.time_steps)
          IN  /\ DOMAIN call.out.result = 1..n
              /\ \A i \in 1..n :
                    call.out.result[i] =
                        ExpectedVoltage(a.voltage, a.time_steps[i], a.time_steps[n],
                                        a.resistance, a.cap_data.C)
    /\ (IsCall("simulate_3d_surface_plot") /\ Returned) =>
          LET a == call.args
          IN  \A p \in call.out.result :
                  p.V = ExpectedVoltage(a.voltage, p.t, a.time_steps[Len(a.time_steps)],
                                        p.r, a.cap_data.C)

\* a fallback trajectory with a point exactly at a positive midpoint (charging) and a
\* later point (discharging)
C4_Witness ==
    /\ IsCall("simulate_charge_discharge")
    /\ OnFallback
    /\ call.args.resistance # Num(0)
    /\ \E i, j \in DOMAIN call.out.result :
          /\ call.args.time_steps[i] # Num(0)
          /\ RMul(Num(2), call.args.time_steps[i])
                = call.args.time_steps[Len(call.args.time_steps)]
          /\ call.out.result[i].form = "V0*(1-exp(arg))"
          /\ call.out.result[j].form = "V0*exp(arg)"

\* C5 as stated: the single point of a one-element grid is classified as charging.
C5_SingleElementIsCharging ==
    (IsCall("simulate_charge_discharge") /\ OnFallback /\ Len(call.args.time_steps) = 1) =>
        call.out.result[1].form = "V0*(1-exp(arg))"

\* C5 amended: with a one-element grid <<t>> the midpoint is t/2; the point is charging
\* only for t = 0, and for t > 0 it is discharging with elapsed time t/2.
C5_SingleElementMidpointIsHalf ==
    (IsCall("simulate_charge_discharge") /\ OnFallback /\ Len(call.args.time_steps) = 1) =>
        LET a == call.args
            t == a.time_steps[1]
            tau == a.resistance[1] * a.cap_data.C[1]
        IN  IF t = Num(0)
            THEN call.out.result[1] =
                    [form |-> "V0*(1-exp(arg))", V0 |-> a.voltage, arg |-> Norm(0, tau)]
            ELSE call.out.result[1] =
                    [form |-> "V0*exp(arg)", V0 |-> a.voltage,
                     arg |-> Norm(-t[1], 2 * t[2] * tau)]

C5_Witness ==
    /\ IsCall("simulate_charge_discharge")
    /\ OnFallback
    /\ Len(call.args.time_steps) = 1
    /\ RLt(Num(0), call.args.time_steps[1])
    /\ RLt(Num(0), call.args.resistance)
    /\ call.out.result[1].form = "V0*exp(arg)"

InvalidParameters ==
    \/ RLeq(call.args.resistance, Num(0))
    \/ RLeq(call.args.cap_data.C, Num(0))
    \/ IsCall("simulate_charge_discharge") /\ Len(call.args.time_steps) = 0

\* C6: a trajectory simulation or an efficiency computation called with resistance <= 0,
\* capacitance <= 0 or an empty time grid fails with an invalid-parameter error, and
\* nothing crosses the native boundary.
C6_InvalidParametersRejected ==
    ((IsCall("simulate_charge_discharge") \/ IsCall("simulate_energy_analysis"))
        /\ InvalidParameters) =>
        /\ call.out.raised = "InvalidParameterError"
        /\ call.out.nativeCalls = {}

\* sourceVoltage^2 / (4 resistance) times min(5 tau, 3 tau)
AverageRateESRLoss(V0, R, C) ==
    LET tau == RMul(R, C)
    IN  RMul(RDiv(Square(V0), RMul(Num(4), R)), RMin(RMul(Num(5), tau), RMul(Num(3), tau)))

\* C7: every pure efficiency computation takes the ESR loss as
\* sourceVoltage^2 / (4 resistance) times tau_eff (energy analysis, 3D comparison,
\* 3D energy landscape).
C7_PureESRLossIsAverageRate ==
    /\ (IsCall("simulate_energy_analysis") /\ OnFallback /\ Returned) =>
          call.out.result.energy_lost_ESR =
              AverageRateESRLoss(call.args.voltage, call.args.resistance, call.args.cap_data.C)
    /\ ((IsCall("simulate_3d_capacitor_comparison") \/ IsCall("simulate_3d_energy_landscape"))
          /\ OnFallback) =>
          \A it \in call.out.result :
              it.energy_lost_ESR = AverageRateESRLoss(it.v, it.r, it.C)

BreakdownOf(e) ==
    <<e.energy_stored, e.energy_lost_ESR, e.energy_lost_leakage, e.dielectric_losses,
      e.plate_losses, e.self_discharge_losses>>

\* C8: the energy breakdown of the energy analysis is the same on both backends.
C8_BreakdownBackendIndependent ==
    (IsCall("simulate_energy_analysis") /\ Returned) =>
        LET a == call.args
        IN  /\ BreakdownOf(call.out.result) =
                   BreakdownOf(EnergyNativeBranch(a.cap_data, a.resistance, a.voltage,
                                                  a.temperature))
            /\ BreakdownOf(call.out.result) =
                   BreakdownOf(EnergyFallbackBranch(a.cap_data, a.resistance, a.voltage))

InPercentRange(x) == Finite(x) /\ 0 <= x[1] /\ x[1] <= 100 * x[2]

\* C9: for capacitance > 0, resistance > 0, sourceVoltage > 0, esr >= 0 and
\* leakage >= 0 the pure efficiency lies in [0, 100].
C9_PureEfficiencyInRange ==
    /\ (/\ IsCall("simulate_energy_analysis")
        /\ OnFallback
        /\ RLt(Num(0), call.args.cap_data.C)
        /\ RLt(Num(0), call.args.resistance)
        /\ RLt(Num(0), call.args.voltage)
        /\ RLeq(Num(0), call.args.cap_data.ESR)
        /\ RLeq(Num(0), call.args.cap_data.leakage)) =>
          /\ Returned
          /\ InPercentRange(call.out.result.efficiency)
    /\ ((IsCall("simulate_3d_capacitor_comparison") \/ IsCall("simulate_3d_energy_landscape"))
          /\ OnFallback) =>
          \A it \in call.out.result : InPercentRange(it.eff)

C9_Witness ==
    /\ IsCall("simulate_energy_analysis")
    /\ OnFallback
    /\ RLt(Num(0), call.args.resistance)
    /\ RLt(Num(0), call.args.voltage)
    /\ RLt(Num(0), call.args.cap_data.ESR)
    /\ Returned
    /\ RLt(Num(0), call.out.result.efficiency)
    /\ RLt(call.out.result.efficiency, Num(100))

\* C10: with sourceVoltage = 0 the pure efficiency of the energy analysis is 0, and no
\* pure efficiency computation divides by zero: the 3D comparison and the 3D landscape
\* take every quotient over a non-zero sum (their voltage_range starts at 5).
C10_ZeroVoltageEfficiencyIsZero ==
    /\ (/\ IsCall("simulate_energy_analysis")
        /\ OnFallback
        /\ RLt(Num(0), call.args.resistance)
        /\ call.args.voltage = Num(0)) =>
          /\ Returned
          /\ call.out.result.efficiency = Num(0)
    /\ ((IsCall("simulate_3d_capacitor_comparison") \/ IsCall("simulate_3d_energy_landscape"))
          /\ OnFallback) =>
          \A it \in call.out.result :
              /\ RAdd(it.energy_stored, it.energy_lost_ESR) # Num(0)
              /\ Finite(it.eff)
              /\ it.v = Num(0) => it.eff = Num(0)

C10_Witness ==
    /\ IsCall("simulate_energy_analysis")
    /\ OnFallback
    /\ RLt(Num(0), call.args.resistance)
    /\ call.args.voltage = Num(0)
    /\ call.out.result.energy_stored = Num(0)
    /\ call.out.result.efficiency = Num(0)

\* C11: the trajectory computed for a time grid has exactly one voltage per grid point
\* on either backend, and on the native branch the one call of
\* simulate_capacitor_behavior is handed a time buffer, a voltage buffer and an
\* element count that all equal the grid length.
C11_OneVoltagePerGridPoint ==
    IsCall("simulate_charge_discharge") =>
        LET n == Len(call.args.time_steps)
            behavior == {c \in call.out.nativeCalls : c.fn = "simulate_capacitor_behavior"}
        IN  /\ DOMAIN call.out.result = 1..n
            /\ \A c \in behavior : c.time_len = n /\ c.out_len = n /\ c.num_steps = n
            /\ Cardinality(behavior) = IF OnFallback THEN 0 ELSE 1

\* a native trajectory over a grid of more than one point
C11_Witness ==
    /\ IsCall("simulate_charge_discharge")
    /\ ~OnFallback
    /\ Returned
    /\ Len(call.args.time_steps) > 1
    /\ DOMAIN call.out.result = 1..Len(call.args.time_steps)
    /\ \E c \in call.out.nativeCalls : c.num_steps = Len(call.args.time_steps)

\* C12: the pure efficiency computation does not depend on temperature: the efficiency
\* and the energy breakdown of a fallback call are those of the same call made with any
\* other temperature (energy analysis, 3D comparison, 3D energy landscape).
C12_PureEfficiencyIgnoresTemperature ==
    /\ (IsCall("simulate_energy_analysis") /\ OnFallback) =>
          \A T \in Temperatures :
              call.out = EnergyAnalysis(FALSE, call.args.cap_data, call.args.resistance,
                                        call.args.voltage, T)
    /\ (IsCall("simulate_3d_capacitor_comparison") /\ OnFallback) =>
          \A T \in Temperatures : call.out = Comparison3D(FALSE, df, T)
    /\ (IsCall("simulate_3d_energy_landscape") /\ OnFallback) =>
          \A T \in Temperatures : call.out = Landscape3D(FALSE, call.args.cap_data, T)

\* a fallback energy analysis away from the reference temperature, with a non-zero
\* temperature coefficient, that returned an efficiency
C12_Witness ==
    /\ IsCall("simulate_energy_analysis")
    /\ OnFallback
    /\ Returned
    /\ call.args.temperature # Num(TempRef)
    /\ call.args.cap_data.temp_coeff # Num(0)
    /\ RLt(Num(0), call.out.result.efficiency)
    /\ \E T \in Temperatures : T # call.args.temperature

\* baseCapacitance (1 + tempCoeff (T - 25)) over one common denominator
ExpectedCapacitance(C_base, temp_coeff, T) ==
    Norm(C_base[1] * (temp_coeff[2] * T[2] + temp_coeff[1] * (T[1] - 25 * T[2])),
         C_base[2] * temp_coeff[2] * T[2])

\* C13: on both backend branches the capacitance at temperature T is
\* baseCapacitance (1 + tempCoeff (T - 25)), for every point of the curve and for the
\* selected temperature, and at T = 25 it is the base capacitance exactly (a change
\* of 0 percent) for every tempCoeff.
C13_CapacitanceAtTemperature ==
    IsCall("simulate_temperature_effects") =>
        LET a == call.args
            res == call.out.result
            temp_range == Linspace(Num(-40), Num(125), CurvePoints)
        IN  /\ Returned
            /\ DOMAIN res.capacitance_values = 1..CurvePoints
            /\ \A i \in 1..CurvePoints :
                  res.capacitance_values[i] =
                      ExpectedCapacitance(a.cap_data.C, a.cap_data.temp_coeff, temp_range[i])
            /\ res.C_selected =
                  ExpectedCapacitance(a.cap_data.C, a.cap_data.temp_coeff, a.temperature)
            /\ a.temperature = Num(25) =>
                  /\ res.C_selected = a.cap_data.C
                  /\ res.capacitance_change = Num(0)

\* a native-branch call at the reference temperature whose curve leaves the base value
C13_Witness ==
    /\ IsCall("simulate_temperature_effects")
    /\ ~OnFallback
    /\ call.args.temperature = Num(25)
    /\ call.args.cap_data.temp_coeff # Num(0)
    /\ call.out.result.C_selected = call.args.cap_data.C
    /\ \E i \in DOMAIN call.out.result.capacitance_values :
          call.out.result.capacitance_values[i] # call.args.cap_data.C

=============================================================================
